---------------------------- MODULE Spec2Model ----------------------------
(***************************************************************************)
(* A model of the mongo-collection repository layer: the pagination        *)
(* arithmetic of PaginatedQuery, the page count of find_paginated, the     *)
(* CRUD operations of CollectionRepository over a document store, the      *)
(* map / try_map transformations of PaginatedData and ListData, and the    *)
(* filter-key normalisation of ListQuery.                                  *)
(*                                                                         *)
(* Machine integers are scaled: a u64 is U64Bits wide, an i64 is the       *)
(* two's-complement reading of the same bits, and an f64 keeps MantBits    *)
(* significant bits (53 of 64 in the program) with an unbounded exponent.  *)
(***************************************************************************)
EXTENDS Integers, Sequences, FiniteSets, TLC

VARIABLES
    overflow_checks,   \* build profile: TRUE = arithmetic overflow panics (debug)
    pq,                \* SpecPage: the PaginatedQuery under test
    ptotal,            \* SpecPage: the total_count handed to the page count
    pout,              \* SpecPage: the last result of skip / limit / total_pages
    store,             \* Spec: the collection, a set of documents
    ret,               \* Spec: the last completed repository call and its result
    chain,             \* Spec: progress of a create / find / delete / delete sequence
    box,               \* SpecMap: the PaginatedData / ListData being transformed
    tr,                \* SpecMap: the last transformation (closure, items it was applied to)
    lq,                \* SpecFilters: ListQuery.filters, the raw mapping and its insertion order (or None)
    pf,                \* SpecFilters: the last parsed_filters call (iteration order, result)
    idin,              \* SpecCodec: the string handed to parse_object_id
    idout,             \* SpecCodec: the last result of parse_object_id
    fp,                \* SpecRace: the find_paginated call in progress
    walk               \* SpecWalk: the pages fetched so far for one filter, page size and sort

vars == <<overflow_checks, pq, ptotal, pout, store, ret, chain, box, tr, lq, pf, idin, idout, fp, walk>>

pageVars == <<pq, ptotal, pout>>

storeVars == <<store, ret, chain>>

mapVars == <<box, tr>>

filterVars == <<lq, pf>>

codecVars == <<idin, idout>>

raceVars == <<fp>>

walkVars == <<walk>>

(***************************************************************************)
(* Bounds                                                                  *)
(***************************************************************************)
U64Bits == 5

MantBits == 4

RECURSIVE Pow2(_)
Pow2(n) == IF n <= 0 THEN 1 ELSE 2 * Pow2(n - 1)

U64Modulus == Pow2(U64Bits)

U64Max == U64Modulus - 1

I64Max == Pow2(U64Bits - 1) - 1

U64 == 0 .. U64Max

None == [some |-> FALSE]

Some(v) == [some |-> TRUE, v |-> v]

(***************************************************************************)
(* PaginatedQuery and SortOrder (repository/models.rs)                     *)
(***************************************************************************)
SortOrder == {"Desc", "Asc"}

SortFields == {"age", "_id"}

PaginatedQuery(page, page_size, sort_by, sort_order) ==
    [page |-> page, page_size |-> page_size, sort_by |-> sort_by, sort_order |-> sort_order]

\* #[default = 1] page, #[default = 10] page_size, sort_by None, SortOrder::Desc
DefaultPage == 1

DefaultPageSize == 10

Panicked == [panic |-> TRUE, val |-> 0]

Returned(v) == [panic |-> FALSE, val |-> v]

\* u64 subtraction a - b: panics with overflow checks, wraps without
SubU64(a, b, checks) ==
    IF a >= b THEN Returned(a - b)
    ELSE IF checks THEN Panicked
    ELSE Returned(a - b + U64Modulus)

\* u64 multiplication a * b: panics with overflow checks, wraps without
MulU64(a, b, checks) ==
    IF a * b <= U64Max THEN Returned(a * b)
    ELSE IF checks THEN Panicked
    ELSE Returned((a * b) % U64Modulus)

\* (self.page - 1) * self.page_size
skip(q, checks) ==
    LET d == SubU64(q.page, 1, checks)
    IN  IF d.panic THEN Panicked ELSE MulU64(d.val, q.page_size, checks)

\* self.page_size as i64: the same bits read as two's complement
limit(q) ==
    IF q.page_size <= I64Max THEN q.page_size ELSE q.page_size - U64Modulus

(***************************************************************************)
(* f64 arithmetic of the page count (repository/traits.rs, line 122)       *)
(***************************************************************************)
RECURSIVE Log2Floor(_)
Log2Floor(n) == IF n < 2 THEN 0 ELSE 1 + Log2Floor(n \div 2)

\* n / d rounded to the nearest integer, ties to even (IEEE 754 default)
RoundDivEven(n, d) ==
    LET q == n \div d
        r == n % d
    IN  IF 2 * r < d THEN q
        ELSE IF 2 * r > d THEN q + 1
        ELSE IF q % 2 = 0 THEN q ELSE q + 1

\* n kept to MantBits significant bits
RoundToMant(n) ==
    LET e == Log2Floor(n)
    IN  IF n = 0 \/ e < MantBits THEN n
        ELSE LET ulp == Pow2(e - MantBits + 1) IN ulp * RoundDivEven(n, ulp)

\* `x as f64` for an unsigned integer x
U64AsF64(n) == RoundToMant(n)

FracBits == U64Bits + MantBits

\* The f64 quotient a / b of two positive f64 integers, as a count of
\* 2^-FracBits units: the exact quotient rounded to MantBits significant bits.
DivF64(a, b) ==
    LET scaled == a * Pow2(FracBits)
        e == Log2Floor(scaled \div b)
        ulp == Pow2(e - MantBits + 1)
    IN  ulp * RoundDivEven(scaled, b * ulp)

\* ceil() of a count of 2^-FracBits units
CeilF64(x) == (x + Pow2(FracBits) - 1) \div Pow2(FracBits)

\* `f as u64`: saturating, NaN to 0
F64AsU64(n) == IF n > U64Max THEN U64Max ELSE n

\* (total_count as f64 / query.page_size as f64).ceil() as u64
total_pages(total_count, page_size) ==
    IF page_size = 0
    THEN IF total_count = 0 THEN 0 ELSE U64Max      \* NaN -> 0, +inf -> u64::MAX
    ELSE IF total_count = 0 THEN 0
    ELSE F64AsU64(CeilF64(DivF64(U64AsF64(total_count), U64AsF64(page_size))))

(***************************************************************************)
(* Identifier codec (utils.rs): ObjectId::parse_str over hex strings.      *)
(* A string is a sequence of characters; an ObjectId is the sequence of    *)
(* the nibble values it decodes to (OidHexLen characters, 24 in the store).*)
(***************************************************************************)
OidHexLen == 2

LowerHex == <<"0", "1", "2", "3", "4", "5", "6", "7", "8", "9", "a", "b", "c", "d", "e", "f">>

UpperHex == <<"0", "1", "2", "3", "4", "5", "6", "7", "8", "9", "A", "B", "C", "D", "E", "F">>

IsHex(c) == \E i \in 1 .. 16 : LowerHex[i] = c \/ UpperHex[i] = c

HexVal(c) == (CHOOSE i \in 1 .. 16 : LowerHex[i] = c \/ UpperHex[i] = c) - 1

Ok(v) == [ok |-> TRUE, err |-> "", val |-> v]

Err(e) == [ok |-> FALSE, err |-> e, val |-> None]

\* results are kept as records: a bool, a count
Bool(b) == [b |-> b]

Count(n) == [n |-> n]

\* a mutant of parse_object_id: a short hexadecimal string is padded
parse_object_id_padding(id) ==
    IF Len(id) <= OidHexLen /\ \A i \in 1 .. Len(id) : IsHex(id[i])
    THEN Ok([i \in 1 .. OidHexLen |->
                IF i <= OidHexLen - Len(id) THEN 0 ELSE HexVal(id[i - (OidHexLen - Len(id))])])
    ELSE Err("InvalidIdentifier")

\* ObjectId::parse_str(id).map_err(Error::custom)
parse_object_id(id) ==
    IF Len(id) = OidHexLen /\ \A i \in 1 .. Len(id) : IsHex(id[i])
    THEN Ok([i \in 1 .. OidHexLen |-> HexVal(id[i])])
    ELSE Err("InvalidIdentifier")

\* ObjectId::to_hex: the lower-case string form
to_hex(oid) == [i \in 1 .. Len(oid) |-> LowerHex[oid[i] + 1]]

Rep(c, n) == [i \in 1 .. n |-> c]

\* The identifier strings callers pass: three lower-case identifiers, an
\* upper-case spelling of the first, and strings outside the grammar
\* (empty, too short, a non-hex character, too long).
IdStrs ==
    { Rep("0", OidHexLen - 1) \o <<"a">>,
      Rep("0", OidHexLen - 1) \o <<"A">>,
      Rep("0", OidHexLen - 1) \o <<"1">>,
      Rep("0", OidHexLen - 1) \o <<"2">>,
      <<>>,
      Rep("0", OidHexLen - 1),
      Rep("0", OidHexLen - 1) \o <<"g">>,
      Rep("0", OidHexLen + 1) }

Oids == {parse_object_id(s).val : s \in {t \in IdStrs : parse_object_id(t).ok}}

\* ObjectIds order as their bytes do
RECURSIVE OidNum(_)
OidNum(oid) ==
    IF Len(oid) = 0 THEN 0
    ELSE 16 * OidNum(SubSeq(oid, 1, Len(oid) - 1)) + oid[Len(oid)]

(***************************************************************************)
(* Records and documents.  A record (Self) carries an optional identifier  *)
(* (serde: rename = "_id", skip_serializing_if = "Option::is_none") and    *)
(* one data field; a stored document always has an _id.                    *)
(***************************************************************************)
Ages == {1, 2}

Records == [_id : {None} \cup {Some(o) : o \in Oids}, age : Ages]

FromDocument(d) == [_id |-> Some(d._id), age |-> d.age]

Filters ==
    {[f |-> "all"]} \cup {[f |-> "age", v |-> a] : a \in Ages}

IdFilter(oid) == [f |-> "_id", v |-> oid]

Matches(d, filter) ==
    CASE filter.f = "all" -> TRUE
      [] filter.f = "age" -> d.age = filter.v
      [] filter.f = "_id" -> d._id = filter.v

Matching(st, filter) == {d \in st : Matches(d, filter)}

\* update documents: { "$set": { "age": a } }
Updates == {[set_age |-> a] : a \in Ages}

ApplyUpdate(d, update) == [d EXCEPT !.age = update.set_age]

(***************************************************************************)
(* The document store (mongodb::Collection), as the repository calls it.   *)
(* A collection is a set of documents with distinct _id; where the store   *)
(* leaves an order or a choice open, every outcome is given.               *)
(***************************************************************************)
HasId(st, oid) == \E d \in st : d._id = oid

\* insert_one: the outcomes [store, res]
insert_one(st, rec) ==
    IF rec._id.some
    THEN IF HasId(st, rec._id.v)
         THEN {[store |-> st, res |-> Err("DuplicateKey")]}
         ELSE {[store |-> st \cup {[_id |-> rec._id.v, age |-> rec.age]},
                res |-> Ok(rec._id.v)]}
    ELSE {[store |-> st \cup {[_id |-> o, age |-> rec.age]}, res |-> Ok(o)] :
              o \in {x \in Oids : ~HasId(st, x)}}

\* find_one: any one matching document, or none
find_one_store(st, filter) ==
    IF Matching(st, filter) = {} THEN {None}
    ELSE {Some(FromDocument(d)) : d \in Matching(st, filter)}

\* a mutant of count_documents: the filter is not applied
count_documents_unfiltered(st, filter) == Cardinality(st)

count_documents(st, filter) == Cardinality(Matching(st, filter))

Perms(S) ==
    {s \in [1 .. Cardinality(S) -> S] :
        \A i, j \in 1 .. Cardinality(S) : i # j => s[i] # s[j]}

SortKey(d, field) == IF field = "_id" THEN OidNum(d._id) ELSE d.age

\* s is ordered by the sort document (ties in any order)
Sorted(s, sort) ==
    \A i, j \in 1 .. Len(s) :
        i < j => IF sort.dir = 1
                 THEN SortKey(s[i], sort.key) <= SortKey(s[j], sort.key)
                 ELSE SortKey(s[i], sort.key) >= SortKey(s[j], sort.key)

Abs(n) == IF n < 0 THEN -n ELSE n

Min(a, b) == IF a < b THEN a ELSE b

\* the cursor's documents after skip and limit: limit 0 is no limit, a
\* negative limit returns at most |limit| documents
SkipLimit(s, sk, lim) ==
    LET rest == IF sk >= Len(s) THEN <<>> ELSE SubSeq(s, sk + 1, Len(s))
        n == IF lim = 0 THEN Len(rest) ELSE Min(Abs(lim), Len(rest))
    IN  SubSeq(rest, 1, n)

FindOptions(sk, lim, sort) == [skip |-> sk, limit |-> lim, sort |-> sort]

\* find(filter).with_options(options): the possible cursors.  A skip that
\* does not fit an i64 may be refused by the driver when it encodes the
\* command.
find_store(st, filter, options) ==
    IF ~options.some
    THEN {Ok(s) : s \in Perms(Matching(st, filter))}
    ELSE LET o == options.v
         IN  {Ok(SkipLimit(s, o.skip, o.limit)) :
                  s \in {p \in Perms(Matching(st, filter)) : Sorted(p, o.sort)}}
             \cup (IF o.skip > I64Max THEN {Err("StoreError")} ELSE {})

UpdateResult(st, matched, modified) ==
    [store |-> st, matched_count |-> matched, modified_count |-> modified]

\* update_one: one matching document is updated; modified_count counts it
\* only when its content changed
update_one_store(st, filter, update) ==
    IF Matching(st, filter) = {} THEN {UpdateResult(st, 0, 0)}
    ELSE {UpdateResult((st \ {d}) \cup {ApplyUpdate(d, update)}, 1,
                       IF ApplyUpdate(d, update) = d THEN 0 ELSE 1) :
              d \in Matching(st, filter)}

update_many_store(st, filter, update) ==
    LET m == Matching(st, filter)
    IN  UpdateResult((st \ m) \cup {ApplyUpdate(d, update) : d \in m},
                     Cardinality(m),
                     Cardinality({d \in m : ApplyUpdate(d, update) # d}))

\* find_one_and_update with the default options (ReturnDocument::Before):
\* one matching document is updated in one store step and returned as it
\* was before the update
find_one_and_update_store(st, filter, update) ==
    IF Matching(st, filter) = {} THEN {[store |-> st, doc |-> None]}
    ELSE {[store |-> (st \ {d}) \cup {ApplyUpdate(d, update)}, doc |-> Some(d)] :
              d \in Matching(st, filter)}

\* find_one_and_delete: one matching document is removed and returned
find_one_and_delete_store(st, filter) ==
    IF Matching(st, filter) = {} THEN {[store |-> st, doc |-> None]}
    ELSE {[store |-> st \ {d}, doc |-> Some(d)] : d \in Matching(st, filter)}

DeleteResult(st, deleted) == [store |-> st, deleted_count |-> deleted]

delete_one_store(st, filter) ==
    IF Matching(st, filter) = {} THEN {DeleteResult(st, 0)}
    ELSE {DeleteResult(st \ {d}, 1) : d \in Matching(st, filter)}

(***************************************************************************)
(* CollectionRepository (repository/traits.rs): each operation gives the   *)
(* set of its outcomes [store, res] on a store st.                         *)
(***************************************************************************)
\* calls lists the store operations the call issued
Outcome(st, res, calls) == [store |-> st, res |-> res, calls |-> calls]

\* insert_one(document), then Ok(document.clone())
create(st, document) ==
    {Outcome(o.store, IF o.res.ok THEN Ok(document) ELSE o.res, <<"insert_one">>) :
         o \in insert_one(st, document)}

\* parse_object_id(id)?, then find_one({ "_id": oid })
find_by_id(st, id) ==
    LET oid == parse_object_id(id)
    IN  IF ~oid.ok THEN {Outcome(st, Err(oid.err), <<>>)}
        ELSE {Outcome(st, Ok(r), <<"find_one">>) : r \in find_one_store(st, IdFilter(oid.val))}

\* the cursor drained with try_next, each document pushed in order
RECURSIVE Drain(_, _)
Drain(cursor, results) ==
    IF cursor = <<>> THEN results
    ELSE Drain(Tail(cursor), Append(results, FromDocument(Head(cursor))))

find_many(st, filter, options) ==
    {IF c.ok THEN Ok(Drain(c.val, <<>>)) ELSE c : c \in find_store(st, filter, options)}

\* SortOrder::Asc => 1, SortOrder::Desc => -1
sort_value(sort_order) == IF sort_order = "Asc" THEN 1 ELSE -1

\* a mutant of sort_doc: the sort order is not consulted
sort_doc_always_desc(query) ==
    [key |-> IF query.sort_by.some THEN query.sort_by.v ELSE "_id", dir |-> -1]

\* doc! { sort_by: sort_value }, or doc! { "_id": -1 } when sort_by is None
sort_doc(query) ==
    IF query.sort_by.some
    THEN [key |-> query.sort_by.v, dir |-> sort_value(query.sort_order)]
    ELSE [key |-> "_id", dir |-> -1]

PaginatedData(items, total_count, page, page_size, pages) ==
    [items |-> items, total_count |-> total_count, page |-> page,
     page_size |-> page_size, total_pages |-> pages]

\* count_documents on the store as it is at the count (stCount), then
\* find_many on the store as it is at the fetch (stFetch)
find_paginated(stCount, stFetch, filter, query, checks) ==
    LET total_count == count_documents(stCount, filter)
        sk == skip(query, checks)
    IN  IF sk.panic THEN {Err("panic")}
        ELSE {IF r.ok
              THEN Ok(PaginatedData(r.val, total_count, query.page, query.page_size,
                                    total_pages(total_count, query.page_size)))
              ELSE r :
                  r \in find_many(stFetch, filter,
                                  Some(FindOptions(sk.val, limit(query), sort_doc(query))))}

\* a mutant of update_one: matched, not modified
update_one_matched(st, filter, update) ==
    {Outcome(r.store, Ok(Bool(r.matched_count > 0)), <<"update_one">>) : r \in update_one_store(st, filter, update)}

\* update_one(filter, update), then Ok(result.modified_count > 0)
update_one(st, filter, update) ==
    {Outcome(r.store, Ok(Bool(r.modified_count > 0)), <<"update_one">>) :
         r \in update_one_store(st, filter, update)}

\* a mutant of update_by_id: an id that does not decode counts as no match
update_by_id_swallowing(st, id, update) ==
    LET oid == parse_object_id(id)
    IN  IF ~oid.ok THEN {Outcome(st, Ok(Bool(FALSE)), <<>>)}
        ELSE {Outcome(r.store, Ok(Bool(r.modified_count > 0)), <<"update_one">>) :
                  r \in update_one_store(st, IdFilter(oid.val), update)}

\* parse_object_id(id)?, then update_one({ "_id": oid }, update)
update_by_id(st, id, update) ==
    LET oid == parse_object_id(id)
    IN  IF ~oid.ok THEN {Outcome(st, Err(oid.err), <<>>)}
        ELSE {Outcome(r.store, Ok(Bool(r.modified_count > 0)), <<"update_one">>) :
                  r \in update_one_store(st, IdFilter(oid.val), update)}

\* update_many(filter, update), then Ok(result.modified_count)
update_many(st, filter, update) ==
    LET r == update_many_store(st, filter, update)
    IN  {Outcome(r.store, Ok(Count(r.modified_count)), <<"update_many">>)}

\* the Option<Self> deserialized from the store's Option<Document>
FromOption(doc) == IF doc.some THEN Some(FromDocument(doc.v)) ELSE None

\* a mutant of find_one_and_update: the document after the update
find_one_and_update_after(st, filter, update) ==
    {Outcome(r.store, Ok(IF r.doc.some THEN Some(FromDocument(ApplyUpdate(r.doc.v, update)))
                         ELSE None), <<"find_one_and_update">>) :
         r \in find_one_and_update_store(st, filter, update)}

\* collection.find_one_and_update(filter, update)
find_one_and_update(st, filter, update) ==
    {Outcome(r.store, Ok(FromOption(r.doc)), <<"find_one_and_update">>) :
         r \in find_one_and_update_store(st, filter, update)}

\* collection.find_one_and_delete(filter)
find_one_and_delete(st, filter) ==
    {Outcome(r.store, Ok(FromOption(r.doc)), <<"find_one_and_delete">>) :
         r \in find_one_and_delete_store(st, filter)}

\* a mutant of delete_by_id: Ok(true) whenever the store call succeeds
delete_by_id_always_true(st, id) ==
    LET oid == parse_object_id(id)
    IN  IF ~oid.ok THEN {Outcome(st, Err(oid.err), <<>>)}
        ELSE {Outcome(r.store, Ok(Bool(TRUE)), <<"delete_one">>) :
                  r \in delete_one_store(st, IdFilter(oid.val))}

\* parse_object_id(id)?, then delete_one({ "_id": oid }), Ok(deleted_count > 0)
delete_by_id(st, id) ==
    LET oid == parse_object_id(id)
    IN  IF ~oid.ok THEN {Outcome(st, Err(oid.err), <<>>)}
        ELSE {Outcome(r.store, Ok(Bool(r.deleted_count > 0)), <<"delete_one">>) :
                  r \in delete_one_store(st, IdFilter(oid.val))}

(***************************************************************************)
(* Spec: callers issue repository operations against one collection.       *)
(* ret is the last completed call (operation, arguments, result); chain    *)
(* follows a create / find_by_id / delete_by_id / delete_by_id sequence on *)
(* one identifier.                                                         *)
(***************************************************************************)
PageVals == {0, 1, 2, 3}

SizeVals == {0, 1, 2, I64Max + 1, U64Max}

Queries ==
    {PaginatedQuery(p, s, b, o) :
        p \in PageVals, s \in SizeVals,
        b \in {None} \cup {Some(f) : f \in SortFields}, o \in SortOrder}

NoCall == [op |-> "none", arg |-> None, calls |-> <<>>] @@ Ok(None)

Call(op, arg, res, calls) == [op |-> op, arg |-> arg, calls |-> calls] @@ res

NoChain == [stage |-> 0, id |-> <<>>, rec |-> None]

\* stage 1: create(rec) succeeded with identifier id; 2: find_by_id(id)
\* followed; 3: delete_by_id(id) followed; 4: a second delete_by_id(id)
ChainStep(ch, op, arg, res) ==
    LET sameId == ch.stage > 0 /\ parse_object_id(arg.id).ok
                               /\ parse_object_id(arg.id).val = ch.id
    IN  CASE op = "create" /\ res.ok /\ arg._id.some ->
                 [stage |-> 1, id |-> arg._id.v, rec |-> Some(arg)]
          [] op = "find_by_id" /\ ch.stage = 1 /\ sameId -> [ch EXCEPT !.stage = 2]
          [] op = "delete_by_id" /\ ch.stage \in {1, 2} /\ sameId -> [ch EXCEPT !.stage = 3]
          [] op = "delete_by_id" /\ ch.stage \in {3, 4} /\ sameId -> [ch EXCEPT !.stage = 4]
          [] OTHER -> NoChain

(***************************************************************************)
(* PaginatedData and ListData transformations (repository/models.rs,       *)
(* list.rs).  A closure is a function on the item values; a fallible       *)
(* closure gives ItemOk(v) or ItemErr(e).                                   *)
(***************************************************************************)
MaxLen == 2

Items == {1, 2}

Errors == {"e1", "e2"}

ItemOk(v) == [ok |-> TRUE, v |-> v, e |-> ""]

ItemErr(e) == [ok |-> FALSE, v |-> 0, e |-> e]

Closures == [Items -> Items]

TryClosures == [Items -> {ItemOk(v) : v \in Items} \cup {ItemErr(e) : e \in Errors}]

ItemSeqs == UNION {[1 .. n -> Items] : n \in 0 .. MaxLen}

\* into_iter().map(f).collect(): f applied to each item in order, each
\* result pushed; calls lists the items f was applied to
RECURSIVE collect(_, _, _, _)
collect(items, f, acc, calls) ==
    IF items = <<>> THEN [items |-> acc, calls |-> calls]
    ELSE collect(Tail(items), f, Append(acc, f[Head(items)]), Append(calls, Head(items)))

\* a mutant of try_collect: a failing item is skipped and the rest collected
RECURSIVE try_collect_skipping(_, _, _, _)
try_collect_skipping(items, g, acc, calls) ==
    IF items = <<>> THEN [ok |-> TRUE, items |-> acc, err |-> "", calls |-> calls]
    ELSE try_collect_skipping(Tail(items), g,
             IF g[Head(items)].ok THEN Append(acc, g[Head(items)].v) ELSE acc,
             Append(calls, Head(items)))

\* into_iter().map(f).collect::<Result<Vec<_>, _>>(): the iteration ends at
\* the first Err, which is the result
RECURSIVE try_collect(_, _, _, _)
try_collect(items, g, acc, calls) ==
    IF items = <<>> THEN [ok |-> TRUE, items |-> acc, err |-> "", calls |-> calls]
    ELSE LET r == g[Head(items)]
         IN  IF r.ok
             THEN try_collect(Tail(items), g, Append(acc, r.v), Append(calls, Head(items)))
             ELSE [ok |-> FALSE, items |-> <<>>, err |-> r.e,
                   calls |-> Append(calls, Head(items))]

\* a container value, or the error a try_map ended with
Held(kind, val, fresh) == [kind |-> kind, ok |-> TRUE, err |-> "", val |-> val, fresh |-> fresh]

Failed(kind, e) == [kind |-> kind, ok |-> FALSE, err |-> e, val |-> None, fresh |-> FALSE]

\* a mutant of PaginatedData_map: total_count is taken from the new items
PaginatedData_map_recount(self, f) ==
    LET c == collect(self.items, f, <<>>, <<>>)
    IN  [val |-> PaginatedData(c.items, Len(c.items), self.page, self.page_size,
                               self.total_pages),
         calls |-> c.calls]

\* PaginatedData::map
PaginatedData_map(self, f) ==
    LET c == collect(self.items, f, <<>>, <<>>)
    IN  [val |-> PaginatedData(c.items, self.total_count, self.page, self.page_size,
                               self.total_pages),
         calls |-> c.calls]

\* PaginatedData::try_map
PaginatedData_try_map(self, g) ==
    LET c == try_collect(self.items, g, <<>>, <<>>)
    IN  [ok |-> c.ok, err |-> c.err,
         val |-> IF c.ok
                 THEN PaginatedData(c.items, self.total_count, self.page, self.page_size,
                                    self.total_pages)
                 ELSE None,
         calls |-> c.calls]

ListData(items, total_count) == [items |-> items, total_count |-> total_count]

\* ListData::new: total_count = items.len() as u64
ListData_new(items) == ListData(items, Len(items))

\* a mutant of ListData_map: the result is built with ListData::new
ListData_map_renew(self, f) ==
    LET c == collect(self.items, f, <<>>, <<>>)
    IN  [val |-> ListData(c.items, Len(c.items)), calls |-> c.calls]

\* ListData::map
ListData_map(self, f) ==
    LET c == collect(self.items, f, <<>>, <<>>)
    IN  [val |-> ListData(c.items, self.total_count), calls |-> c.calls]

\* ListData::try_map
ListData_try_map(self, g) ==
    LET c == try_collect(self.items, g, <<>>, <<>>)
    IN  [ok |-> c.ok, err |-> c.err,
         val |-> IF c.ok THEN ListData(c.items, self.total_count) ELSE None,
         calls |-> c.calls]

NoTransform ==
    [op |-> "none", f |-> [i \in Items |-> i], g |-> [i \in Items |-> ItemOk(i)],
     calls |-> <<>>]

MapIdle ==
    /\ box = Held("list", ListData_new(<<>>), TRUE)
    /\ tr = NoTransform

(***************************************************************************)
(* ListQuery::parsed_filters (list.rs).  Keys are sequences of characters; *)
(* a HashMap is a function on its key set, iterated in an arbitrary order. *)
(***************************************************************************)
MaxRawKeys == 3

BracketPrefix == <<"f", "i", "l", "t", "e", "r", "s", "[">>

BracketSuffix == <<"]">>

DotPrefix == <<"f", "i", "l", "t", "e", "r", "s", ".">>

AgeName == <<"a", "g", "e">>

NameName == <<"n", "a", "m", "e">>

\* the raw keys a query string brings: both syntaxes for age, the dot
\* syntax for name, an empty bracket name, an unclosed bracket, and page
RawKeys ==
    { BracketPrefix \o AgeName \o BracketSuffix,
      DotPrefix \o AgeName,
      DotPrefix \o NameName,
      BracketPrefix \o BracketSuffix,
      BracketPrefix \o AgeName,
      <<"p", "a", "g", "e">> }

RawValues == {"30", "Alice", "1"}

RawMaps ==
    UNION {[ks -> RawValues] : ks \in {k \in SUBSET RawKeys : Cardinality(k) <= MaxRawKeys}}

\* str::strip_prefix
strip_prefix(s, prefix) ==
    IF Len(s) >= Len(prefix) /\ SubSeq(s, 1, Len(prefix)) = prefix
    THEN Some(SubSeq(s, Len(prefix) + 1, Len(s)))
    ELSE None

\* str::strip_suffix
strip_suffix(s, suffix) ==
    IF Len(s) >= Len(suffix) /\ SubSeq(s, Len(s) - Len(suffix) + 1, Len(s)) = suffix
    THEN Some(SubSeq(s, 1, Len(s) - Len(suffix)))
    ELSE None

\* a mutant of filter_name: the closing bracket is not required
filter_name_unclosed(key) ==
    LET b == strip_prefix(key, BracketPrefix)
    IN  IF b.some
        THEN (IF strip_suffix(b.v, BracketSuffix).some
              THEN strip_suffix(b.v, BracketSuffix) ELSE b)
        ELSE strip_prefix(key, DotPrefix)

\* key.strip_prefix("filters[").and_then(|s| s.strip_suffix("]")), else
\* key.strip_prefix("filters.")
filter_name(key) ==
    LET b == strip_prefix(key, BracketPrefix)
        k == IF b.some THEN strip_suffix(b.v, BracketSuffix) ELSE None
    IN  IF k.some THEN k ELSE strip_prefix(key, DotPrefix)

\* HashMap::insert
Insert(map, k, v) == [x \in DOMAIN map \cup {k} |-> IF x = k THEN v ELSE map[x]]

EmptyMap == [x \in {} |-> ""]

\* the for loop over raw_filters, visiting the keys in the order given
RECURSIVE parse_loop(_, _, _)
parse_loop(raw_filters, order, filters) ==
    IF order = <<>> THEN filters
    ELSE LET key == Head(order)
             k == filter_name(key)
         IN  parse_loop(raw_filters, Tail(order),
                        IF k.some THEN Insert(filters, k.v, raw_filters[key]) ELSE filters)

\* ListQuery::parsed_filters, for one iteration order of the raw map
parsed_filters(filters, order) ==
    IF filters.some THEN Some(parse_loop(filters.v, order, EmptyMap)) ELSE None

\* the Some(HashMap) the deserializer built, with the order in which it
\* inserted the keys (the order of the query string)
Deserialized(m, inserted) == Some(m) @@ [inserted |-> inserted]

NoParse == [done |-> FALSE, order |-> <<>>, result |-> None]

FilterIdle ==
    /\ lq = None
    /\ pf = NoParse

\* the characters of the strings handed to the codec: hexadecimal digits
\* of both cases and two characters outside the grammar
CodecChars == {"0", "9", "a", "F", "g", "-"}

CodecInputs == UNION {[1 .. n -> CodecChars] : n \in 0 .. OidHexLen + 1}

NoParseId == [done |-> FALSE, ok |-> FALSE, err |-> "", oid |-> <<>>]

CodecIdle ==
    /\ idin = <<>>
    /\ idout = NoParseId

\* find_paginated in progress: pc is "idle", "counted" (count_documents
\* has returned) or "done" (find_many has returned); at_count and
\* at_fetch are the collection as the two store steps saw it
NoFetch ==
    [pc |-> "idle", filter |-> [f |-> "all"],
     query |-> PaginatedQuery(DefaultPage, DefaultPageSize, None, "Desc"),
     at_count |-> {}, at_fetch |-> {}, wrote |-> FALSE, res |-> Ok(None)]

RaceIdle == fp = NoFetch

\* the pages a caller has fetched: got maps a page number to the result
\* find_paginated returned for it
NoWalk ==
    [filter |-> [f |-> "all"],
     query |-> PaginatedQuery(DefaultPage, DefaultPageSize, None, "Desc"),
     got |-> <<>>]

WalkIdle == walk = NoWalk

(***************************************************************************)
(* SpecPage: skip, limit and the page count applied to every input         *)
(***************************************************************************)
NoOut == [op |-> "none", panic |-> FALSE, val |-> 0]

InitPage ==
    /\ overflow_checks \in BOOLEAN
    /\ pq \in {PaginatedQuery(p, s, None, "Desc") : p \in U64, s \in U64}
    /\ ptotal \in U64
    /\ pout = NoOut
    /\ store = {} /\ ret = NoCall /\ chain = NoChain
    /\ MapIdle
    /\ FilterIdle
    /\ CodecIdle
    /\ RaceIdle
    /\ WalkIdle

CallSkip ==
    /\ pout' = [op |-> "skip"] @@ skip(pq, overflow_checks)
    /\ UNCHANGED <<overflow_checks, pq, ptotal, storeVars, mapVars, filterVars, codecVars, raceVars, walkVars>>

CallLimit ==
    /\ pout' = [op |-> "limit", panic |-> FALSE, val |-> limit(pq)]
    /\ UNCHANGED <<overflow_checks, pq, ptotal, storeVars, mapVars, filterVars, codecVars, raceVars, walkVars>>

CallTotalPages ==
    /\ pout' = [op |-> "total_pages", panic |-> FALSE,
                val |-> total_pages(ptotal, pq.page_size)]
    /\ UNCHANGED <<overflow_checks, pq, ptotal, storeVars, mapVars, filterVars, codecVars, raceVars, walkVars>>

NextPage == CallSkip \/ CallLimit \/ CallTotalPages

SpecPage == InitPage /\ [][NextPage]_vars

(***************************************************************************)
(* Spec: the repository operations                                         *)
(***************************************************************************)
PageIdle ==
    /\ pq = PaginatedQuery(DefaultPage, DefaultPageSize, None, "Desc")
    /\ ptotal = 0
    /\ pout = NoOut

Init ==
    /\ overflow_checks \in BOOLEAN
    /\ store = {}
    /\ ret = NoCall
    /\ chain = NoChain
    /\ PageIdle
    /\ MapIdle
    /\ FilterIdle
    /\ CodecIdle
    /\ RaceIdle
    /\ WalkIdle

\* one call: the store and the result become one of the outcomes
Complete(op, arg, outcomes) ==
    \E o \in outcomes :
        /\ store' = o.store
        /\ ret' = Call(op, arg, o.res, o.calls)
        /\ chain' = ChainStep(chain, op, arg, o.res)
        /\ UNCHANGED <<overflow_checks, pageVars, mapVars, filterVars, codecVars, raceVars, walkVars>>

\* a caller starts its next call once it has taken the previous result
Ready == ret.op = "none"

Create ==
    /\ Ready
    /\ \E document \in Records :
           /\ create(store, document) # {}
           /\ Complete("create", document, create(store, document))

FindById ==
    /\ Ready
    /\ \E id \in IdStrs : Complete("find_by_id", [id |-> id], find_by_id(store, id))

UpdateById ==
    /\ Ready
    /\ \E id \in IdStrs, update \in Updates :
           Complete("update_by_id", [id |-> id, update |-> update],
                    update_by_id(store, id, update))

UpdateOne ==
    /\ Ready
    /\ \E filter \in Filters, update \in Updates :
           Complete("update_one", [filter |-> filter, update |-> update],
                    update_one(store, filter, update))

UpdateMany ==
    /\ Ready
    /\ \E filter \in Filters, update \in Updates :
           Complete("update_many", [filter |-> filter, update |-> update],
                    update_many(store, filter, update))

FindOneAndUpdate ==
    /\ Ready
    /\ \E filter \in Filters, update \in Updates :
           Complete("find_one_and_update", [filter |-> filter, update |-> update],
                    find_one_and_update(store, filter, update))

DeleteById ==
    /\ Ready
    /\ \E id \in IdStrs : Complete("delete_by_id", [id |-> id], delete_by_id(store, id))

FindOneAndDelete ==
    /\ Ready
    /\ \E filter \in Filters :
           Complete("find_one_and_delete", [filter |-> filter],
                    find_one_and_delete(store, filter))

FindPaginated ==
    /\ Ready
    /\ \E filter \in Filters, query \in Queries :
           Complete("find_paginated", [filter |-> filter, query |-> query],
                    {Outcome(store, r, IF ~r.ok /\ r.err = "panic" THEN <<"count_documents">>
                                       ELSE <<"count_documents", "find">>) :
                         r \in find_paginated(store, store, filter, query, overflow_checks)})

\* the caller takes the result of the call it awaited
Return ==
    /\ ret.op # "none"
    /\ ret' = NoCall
    /\ UNCHANGED <<overflow_checks, pageVars, store, chain, mapVars, filterVars, codecVars, raceVars, walkVars>>

Next ==
    \/ Create
    \/ FindById
    \/ UpdateById
    \/ UpdateOne
    \/ UpdateMany
    \/ FindOneAndUpdate
    \/ DeleteById
    \/ FindOneAndDelete
    \/ FindPaginated
    \/ Return

Spec == Init /\ [][Next]_vars

(***************************************************************************)
(* SpecMap: map and try_map applied to PaginatedData and ListData values   *)
(***************************************************************************)
\* PaginatedData values as find_paginated assembles them
PaginatedInputs ==
    {PaginatedData(items, n, page, size, total_pages(n, size)) :
        items \in ItemSeqs, n \in {0, MaxLen, 2 * MaxLen + 1},
        page \in {1, 2}, size \in {MaxLen, DefaultPageSize}}

InitMap ==
    /\ overflow_checks = FALSE
    /\ PageIdle
    /\ store = {} /\ ret = NoCall /\ chain = NoChain
    /\ \/ \E d \in PaginatedInputs : box = Held("paginated", d, FALSE)
       \/ \E items \in ItemSeqs : box = Held("list", ListData_new(items), TRUE)
    /\ tr = NoTransform
    /\ FilterIdle
    /\ CodecIdle
    /\ RaceIdle
    /\ WalkIdle

Transformed(op, f, g, calls) == [op |-> op, f |-> f, g |-> g, calls |-> calls]

MapFrame == UNCHANGED <<overflow_checks, pageVars, storeVars, filterVars, codecVars, raceVars, walkVars>>

PaginatedMap ==
    /\ box.kind = "paginated" /\ box.ok
    /\ \E f \in Closures :
           LET r == PaginatedData_map(box.val, f)
           IN  /\ box' = Held("paginated", r.val, FALSE)
               /\ tr' = Transformed("map", f, NoTransform.g, r.calls)
    /\ MapFrame

PaginatedTryMap ==
    /\ box.kind = "paginated" /\ box.ok
    /\ \E g \in TryClosures :
           LET r == PaginatedData_try_map(box.val, g)
           IN  /\ box' = IF r.ok THEN Held("paginated", r.val, FALSE)
                         ELSE Failed("paginated", r.err)
               /\ tr' = Transformed("try_map", NoTransform.f, g, r.calls)
    /\ MapFrame

ListNew ==
    /\ \E items \in ItemSeqs : box' = Held("list", ListData_new(items), TRUE)
    /\ tr' = Transformed("new", NoTransform.f, NoTransform.g, <<>>)
    /\ MapFrame

\* total_count is a public field: a caller sets it to a superset count
ListSetTotalCount ==
    /\ box.kind = "list" /\ box.ok
    /\ \E n \in 0 .. MaxLen + 1 :
           box' = Held("list", [box.val EXCEPT !.total_count = n], FALSE)
    /\ tr' = Transformed("set_total_count", NoTransform.f, NoTransform.g, <<>>)
    /\ MapFrame

ListMap ==
    /\ box.kind = "list" /\ box.ok
    /\ \E f \in Closures :
           LET r == ListData_map(box.val, f)
           IN  /\ box' = Held("list", r.val, box.fresh)
               /\ tr' = Transformed("map", f, NoTransform.g, r.calls)
    /\ MapFrame

ListTryMap ==
    /\ box.kind = "list" /\ box.ok
    /\ \E g \in TryClosures :
           LET r == ListData_try_map(box.val, g)
           IN  /\ box' = IF r.ok THEN Held("list", r.val, box.fresh)
                         ELSE Failed("list", r.err)
               /\ tr' = Transformed("try_map", NoTransform.f, g, r.calls)
    /\ MapFrame

NextMap ==
    \/ PaginatedMap
    \/ PaginatedTryMap
    \/ ListNew
    \/ ListSetTotalCount
    \/ ListMap
    \/ ListTryMap

SpecMap == InitMap /\ [][NextMap]_vars

(***************************************************************************)
(* SpecFilters: parsed_filters applied to every raw mapping                *)
(***************************************************************************)
InitFilters ==
    /\ overflow_checks = FALSE
    /\ PageIdle
    /\ store = {} /\ ret = NoCall /\ chain = NoChain
    /\ MapIdle
    /\ lq \in {None} \cup UNION {{Deserialized(m, ins) : ins \in Perms(DOMAIN m)} : m \in RawMaps}
    /\ pf = NoParse
    /\ CodecIdle
    /\ RaceIdle
    /\ WalkIdle

FilterFrame == UNCHANGED <<overflow_checks, pageVars, storeVars, mapVars, lq, codecVars, raceVars, walkVars>>

\* filters is None: return None
ParseAbsent ==
    /\ ~pf.done
    /\ ~lq.some
    /\ pf' = [done |-> TRUE, order |-> <<>>, result |-> parsed_filters(lq, <<>>)]
    /\ FilterFrame

\* filters is Some: the loop visits the keys in the map's iteration order
ParseFilters ==
    /\ ~pf.done
    /\ lq.some
    /\ \E order \in Perms(DOMAIN lq.v) :
           pf' = [done |-> TRUE, order |-> order, result |-> parsed_filters(lq, order)]
    /\ FilterFrame

NextFilters == ParseAbsent \/ ParseFilters

SpecFilters == InitFilters /\ [][NextFilters]_vars

(***************************************************************************)
(* SpecCodec: parse_object_id applied to every string                      *)
(***************************************************************************)
InitCodec ==
    /\ overflow_checks = FALSE
    /\ PageIdle
    /\ store = {} /\ ret = NoCall /\ chain = NoChain
    /\ MapIdle
    /\ FilterIdle
    /\ idin \in CodecInputs
    /\ idout = NoParseId
    /\ RaceIdle
    /\ WalkIdle

ParseObjectId ==
    /\ ~idout.done
    /\ LET r == parse_object_id(idin)
       IN  idout' = [done |-> TRUE, ok |-> r.ok, err |-> r.err,
                     oid |-> IF r.ok THEN r.val ELSE <<>>]
    /\ UNCHANGED <<overflow_checks, pageVars, storeVars, mapVars, filterVars, idin, raceVars, walkVars>>

\* the caller drops the result and may parse the string again
DropObjectId ==
    /\ idout.done
    /\ idout' = NoParseId
    /\ UNCHANGED <<overflow_checks, pageVars, storeVars, mapVars, filterVars, idin, raceVars, walkVars>>

NextCodec == ParseObjectId \/ DropObjectId

SpecCodec == InitCodec /\ [][NextCodec]_vars

(***************************************************************************)
(* SpecRace: one find_paginated call, its count and its fetch two store    *)
(* steps, with other clients writing to the collection at any time         *)
(***************************************************************************)
RaceQueries ==
    {PaginatedQuery(p, s, b, "Asc") :
        p \in {1, 2}, s \in {1, 2}, b \in {None, Some("age")}}

InitRace ==
    /\ overflow_checks \in BOOLEAN
    /\ PageIdle
    /\ store = {} /\ ret = NoCall /\ chain = NoChain
    /\ MapIdle
    /\ FilterIdle
    /\ CodecIdle
    /\ RaceIdle
    /\ WalkIdle

RaceFrame ==
    UNCHANGED <<overflow_checks, pageVars, ret, chain, mapVars, filterVars, codecVars, walkVars>>

\* let total_count = collection.count_documents(filter.clone()).await?
PaginatedCount ==
    /\ fp.pc = "idle"
    /\ \E filter \in Filters, query \in RaceQueries :
           fp' = [NoFetch EXCEPT !.pc = "counted", !.filter = filter, !.query = query,
                                 !.at_count = store]
    /\ UNCHANGED store
    /\ RaceFrame

\* let items = Self::find_many(db, filter, Some(find_options)).await?,
\* then the PaginatedData is assembled
PaginatedFetch ==
    /\ fp.pc = "counted"
    /\ \E r \in find_paginated(fp.at_count, store, fp.filter, fp.query, overflow_checks) :
           fp' = [fp EXCEPT !.pc = "done", !.at_fetch = store, !.res = r]
    /\ UNCHANGED store
    /\ RaceFrame

\* the caller takes the PaginatedData
PaginatedReturn ==
    /\ fp.pc = "done"
    /\ fp' = NoFetch
    /\ UNCHANGED store
    /\ RaceFrame

\* a write of another client; it interleaves when the call has counted
\* and not yet fetched
Interleave(outcomes) ==
    \E o \in outcomes :
        /\ o.store # store
        /\ store' = o.store
        /\ fp' = [fp EXCEPT !.wrote = fp.wrote \/ fp.pc = "counted"]
        /\ RaceFrame

ConcurrentCreate ==
    /\ fp.pc # "done"
    /\ \E document \in Records : Interleave(create(store, document))

ConcurrentUpdate ==
    /\ fp.pc # "done"
    /\ \E filter \in Filters, update \in Updates :
           Interleave(update_one(store, filter, update))

ConcurrentDelete ==
    /\ fp.pc # "done"
    /\ \E filter \in Filters : Interleave(find_one_and_delete(store, filter))

NextRace ==
    \/ PaginatedCount
    \/ PaginatedFetch
    \/ PaginatedReturn
    \/ ConcurrentCreate
    \/ ConcurrentUpdate
    \/ ConcurrentDelete

SpecRace == InitRace /\ [][NextRace]_vars

(***************************************************************************)
(* SpecWalk: a caller pages through a collection that does not change,     *)
(* with one filter, page size and sort                                     *)
(***************************************************************************)
WalkPages == PageVals \ {0}

WalkSizes == SizeVals \ {0}

\* the collections: sets of documents with distinct identifiers
Stores == {st \in SUBSET [_id : Oids, age : Ages] : \A d, e \in st : d._id = e._id => d = e}

InitWalk ==
    /\ overflow_checks \in BOOLEAN
    /\ PageIdle
    /\ store \in Stores
    /\ ret = NoCall /\ chain = NoChain
    /\ MapIdle
    /\ FilterIdle
    /\ CodecIdle
    /\ RaceIdle
    /\ \E filter \in Filters, page_size \in WalkSizes,
          sort_by \in {None} \cup {Some(f) : f \in SortFields}, sort_order \in SortOrder :
           walk = [NoWalk EXCEPT !.filter = filter,
                                 !.query = PaginatedQuery(1, page_size, sort_by, sort_order)]

\* find_paginated(filter, query with the page set) for a page not fetched yet
FetchPage ==
    \E page \in WalkPages \ DOMAIN walk.got :
        \E r \in find_paginated(store, store, walk.filter,
                                [walk.query EXCEPT !.page = page], overflow_checks) :
            /\ walk' = [walk EXCEPT !.got = [p \in DOMAIN walk.got \cup {page} |->
                                                IF p = page THEN r ELSE walk.got[p]]]
            /\ UNCHANGED <<overflow_checks, pageVars, storeVars, mapVars, filterVars,
                           codecVars, raceVars>>

NextWalk == FetchPage

SpecWalk == InitWalk /\ [][NextWalk]_vars

(***************************************************************************)
(* C1, C2                                                                  *)
(***************************************************************************)

\* C1: for every page and page_size > 0, skip() returns exactly
\* (page - 1) * page_size and limit() returns exactly page_size
\* (no wrap-around, underflow, panic or sign change).
C1_SkipLimitExact ==
    pq.page_size > 0 =>
        /\ pout.op = "skip" =>
               ~pout.panic /\ pout.val = (pq.page - 1) * pq.page_size
        /\ pout.op = "limit" => pout.val = pq.page_size

\* C2: total_pages is the least n with n * page_size >= total_count,
\* for every total_count and every page_size.
C2_TotalPagesIsCeil ==
    pout.op = "total_pages" =>
        /\ pout.val * pq.page_size >= ptotal
        /\ pout.val > 0 => (pout.val - 1) * pq.page_size < ptotal

(***************************************************************************)
(* C3 - C6                                                                 *)
(***************************************************************************)

\* C3: every PaginatedData returned by find_paginated has
\* items.length <= page_size, for every query it accepts.
C3_ItemsWithinPageSize ==
    (ret.op = "find_paginated" /\ ret.ok) =>
        Len(ret.val.items) <= ret.arg.query.page_size

C5_ModifiedNotMatched ==
    [][ /\ (ret'.op \in {"update_by_id", "update_one"} /\ ret'.ok) =>
               (ret'.val = Bool(store' # store))
        /\ (ret'.op = "update_many" /\ ret'.ok) =>
               (ret'.val = Count(Cardinality(store \ store')))
      ]_vars

C5_Witness ==
    /\ ret.op = "update_one" /\ ret.ok /\ ret.val = Bool(FALSE)
    /\ \E d \in store : Matches(d, ret.arg.filter) /\ d.age = ret.arg.update.set_age

\* C6: find_paginated returns total_count = the number of documents
\* matching the filter, the query's page and page_size, and as items the
\* result of find_many with skip = query.skip(), limit = query.limit() and
\* the sort { sort_by: +1 (Asc) / -1 (Desc) }, or { "_id": -1 } when sort_by
\* is absent.
C6_FindPaginatedShape ==
    (ret.op = "find_paginated" /\ ret.ok) =>
        LET q == ret.arg.query
            key == IF q.sort_by.some THEN q.sort_by.v ELSE "_id"
            dir == IF ~q.sort_by.some THEN -1
                   ELSE IF q.sort_order = "Asc" THEN 1 ELSE -1
            options == FindOptions(skip(q, overflow_checks).val, limit(q),
                                   [key |-> key, dir |-> dir])
        IN  /\ ret.val.total_count =
                   Cardinality({d \in store : Matches(d, ret.arg.filter)})
            /\ ret.val.page = q.page
            /\ ret.val.page_size = q.page_size
            /\ Ok(ret.val.items) \in find_many(store, ret.arg.filter, Some(options))

C6_Witness ==
    /\ ret.op = "find_paginated" /\ ret.ok
    /\ ret.arg.query.sort_by = Some("age") /\ ret.arg.query.sort_order = "Asc"
    /\ ret.arg.query.page = 2 /\ ret.arg.query.page_size = 1
    /\ ret.val.total_count = 3
    /\ Len(ret.val.items) = 1 /\ ret.val.items[1].age = 2

(***************************************************************************)
(* C7 - C9                                                                 *)
(***************************************************************************)
\* the closure result for item v in the transformation just made
Image(v) == IF tr'.op = "map" THEN tr'.f[v] ELSE tr'.g[v].v

\* the items of box' are the closure applied to each item of box, in order
ItemsTransformed ==
    /\ Len(box'.val.items) = Len(box.val.items)
    /\ \A i \in 1 .. Len(box.val.items) : box'.val.items[i] = Image(box.val.items[i])

\* C7: PaginatedData.map(f) keeps total_count, page, page_size and
\* total_pages and applies f to each item in order (same length); a
\* successful try_map gives the same.
C7_MapKeepsMetadata ==
    [][ (box.kind = "paginated" /\ box.ok /\ tr'.op \in {"map", "try_map"}) =>
            /\ tr'.op = "map" => box'.ok
            /\ box'.ok =>
                   /\ box'.kind = "paginated"
                   /\ box'.val.total_count = box.val.total_count
                   /\ box'.val.page = box.val.page
                   /\ box'.val.page_size = box.val.page_size
                   /\ box'.val.total_pages = box.val.total_pages
                   /\ ItemsTransformed
      ]_vars

C7_Witness ==
    /\ box.kind = "paginated" /\ box.ok /\ tr.op = "map"
    /\ tr.f = [i \in Items |-> 3 - i]
    /\ tr.calls = <<1, 2>> /\ box.val.items = <<2, 1>>
    /\ box.val.total_count = 2 * MaxLen + 1 /\ box.val.page = 2
    /\ box.val.total_pages = 1

\* C8: try_map on PaginatedData and on ListData is all-or-nothing: with a
\* failing item the result is the error of the first failing item, no
\* container is returned and the closure is applied to no item after it;
\* a container is returned only when every item succeeds.
C8_TryMapAllOrNothing ==
    [][ (box.ok /\ tr'.op = "try_map") =>
            LET items == box.val.items
                failing == {i \in 1 .. Len(items) : ~tr'.g[items[i]].ok}
            IN  IF failing = {}
                THEN box'.ok /\ tr'.calls = items
                ELSE LET first == CHOOSE i \in failing : \A j \in failing : i <= j
                     IN  /\ ~box'.ok
                         /\ box'.val = None
                         /\ box'.err = tr'.g[items[first]].e
                         /\ tr'.calls = SubSeq(items, 1, first)
      ]_vars

C8_Witness ==
    /\ box.kind = "list" /\ ~box.ok /\ tr.op = "try_map"
    /\ tr.g = [i \in Items |-> IF i = 1 THEN ItemOk(2) ELSE ItemErr("e2")]
    /\ tr.calls = <<1, 2>> /\ box.err = "e2"

\* C9: ListData::new sets total_count = items.length; map and a successful
\* try_map leave total_count unchanged and replace each item by its image;
\* so a list built by new keeps total_count = items.length through them,
\* and a total_count set independently keeps its value.
C9_ListTotalCount ==
    /\ []((box.kind = "list" /\ box.ok /\ box.fresh) =>
              box.val.total_count = Len(box.val.items))
    /\ [][ /\ tr'.op = "new" => box'.val.total_count = Len(box'.val.items)
           /\ (box.kind = "list" /\ box.ok /\ tr'.op \in {"map", "try_map"} /\ box'.ok) =>
                  /\ box'.val.total_count = box.val.total_count
                  /\ ItemsTransformed
         ]_vars

C9_Witness ==
    /\ box.kind = "list" /\ box.ok /\ ~box.fresh /\ tr.op = "map"
    /\ box.val.total_count = MaxLen + 1 /\ Len(box.val.items) = 1
    /\ tr.f = [i \in Items |-> 2] /\ tr.calls = <<1>>

(***************************************************************************)
(* C10                                                                     *)
(***************************************************************************)
FilterNames == {AgeName, NameName, <<>>}

\* key is filters[name] or filters.name
HasForm(key, name) ==
    \/ key = <<"f", "i", "l", "t", "e", "r", "s", "[">> \o name \o <<"]">>
    \/ key = <<"f", "i", "l", "t", "e", "r", "s", ".">> \o name

\* C10 as stated: the result holds name -> value for every raw key
\* filters[name] or filters.name, with the value unchanged, and nothing
\* else; an absent raw mapping gives an absent result.
C10_EveryFilterKeyKept ==
    pf.done =>
        IF ~lq.some THEN pf.result = None
        ELSE /\ pf.result.some
             /\ \A key \in DOMAIN lq.v : \A name \in FilterNames :
                    HasForm(key, name) =>
                        /\ name \in DOMAIN pf.result.v
                        /\ pf.result.v[name] = lq.v[key]
             /\ \A n \in DOMAIN pf.result.v :
                    \E key \in DOMAIN lq.v : HasForm(key, n)

\* C10 amended: every name given by a raw key filters[name] or
\* filters.name is in the result, with the unchanged value of a raw key
\* of that name (of the only one, when one key gives the name); nothing
\* else is in the result; an absent raw mapping gives an absent result.
C10_FilterKeysNormalized ==
    pf.done =>
        IF ~lq.some THEN pf.result = None
        ELSE /\ pf.result.some
             /\ \A key \in DOMAIN lq.v : \A name \in FilterNames :
                    HasForm(key, name) =>
                        /\ name \in DOMAIN pf.result.v
                        /\ \E other \in DOMAIN lq.v :
                               /\ HasForm(other, name)
                               /\ pf.result.v[name] = lq.v[other]
             /\ \A n \in DOMAIN pf.result.v :
                    n \in FilterNames /\ \E key \in DOMAIN lq.v : HasForm(key, n)

C10_Witness ==
    /\ pf.done /\ lq.some
    /\ lq.v = [key \in {BracketPrefix \o AgeName \o BracketSuffix, DotPrefix \o NameName,
                        <<"p", "a", "g", "e">>} |->
                  IF key = BracketPrefix \o AgeName \o BracketSuffix THEN "30"
                  ELSE IF key = DotPrefix \o NameName THEN "Alice" ELSE "1"]
    /\ pf.result = Some([n \in {AgeName, NameName} |-> IF n = AgeName THEN "30" ELSE "Alice"])

(***************************************************************************)
(* C11                                                                     *)
(***************************************************************************)
HexDigits ==
    {"0", "1", "2", "3", "4", "5", "6", "7", "8", "9",
     "a", "b", "c", "d", "e", "f", "A", "B", "C", "D", "E", "F"}

\* the store's identifier grammar: OidHexLen hexadecimal characters
InGrammar(str) == Len(str) = OidHexLen /\ \A i \in 1 .. Len(str) : str[i] \in HexDigits

\* strings are equivalent when they differ only in the case of a..f
LowerChar(c) ==
    CASE c = "A" -> "a" [] c = "B" -> "b" [] c = "C" -> "c"
      [] c = "D" -> "d" [] c = "E" -> "e" [] c = "F" -> "f" [] OTHER -> c

LowerStr(str) == [i \in 1 .. Len(str) |-> LowerChar(str[i])]

\* C11: parse_object_id succeeds on every string of the identifier
\* grammar with an identifier whose string form is equivalent to the
\* input, and returns InvalidIdentifier for every other string; it never
\* turns a string outside the grammar into an identifier.
C11_ParseObjectIdTotal ==
    idout.done =>
        IF InGrammar(idin)
        THEN /\ idout.ok
             /\ Len(idout.oid) = OidHexLen
             /\ LowerStr(to_hex(idout.oid)) = LowerStr(idin)
        ELSE /\ ~idout.ok
             /\ idout.err = "InvalidIdentifier"
             /\ idout.oid = <<>>

\* a too-short hexadecimal string was refused, and an upper-case
\* identifier was accepted
C11_Witness ==
    /\ idout.done
    /\ \/ idin = <<"a">> /\ ~idout.ok
       \/ idin = Rep("F", OidHexLen) /\ idout.ok

C13_CountMatchesFetchUnlessWrite ==
    (fp.pc = "done" /\ fp.res.ok /\ ~fp.wrote) =>
        fp.res.val.total_count = Cardinality({d \in fp.at_fetch : Matches(d, fp.filter)})

\* a write interleaved between the count and the fetch, and the returned
\* page has items while total_count and total_pages are 0
C13_Witness ==
    /\ fp.pc = "done" /\ fp.res.ok
    /\ fp.wrote
    /\ fp.res.val.items # <<>>
    /\ fp.res.val.total_count = 0
    /\ fp.res.val.total_pages = 0

(***************************************************************************)
(* C14                                                                     *)
(***************************************************************************)
ByIdOps == {"find_by_id", "update_by_id", "delete_by_id"}

\* the store operation a by-id operation issues once the id has decoded
ByIdStoreCall(op) ==
    CASE op = "find_by_id" -> "find_one"
      [] op = "update_by_id" -> "update_one"
      [] op = "delete_by_id" -> "delete_one"

\* C14: find_by_id, update_by_id and delete_by_id decode the id first.
\* With an id outside the identifier grammar they return
\* InvalidIdentifier, issue no store operation and leave the store as it
\* was; with an id of the grammar they issue their one store operation;
\* and a failure that no store operation produced is InvalidIdentifier.
C14_DecodeBeforeStore ==
    [][ret'.op \in ByIdOps =>
          /\ ~InGrammar(ret'.arg.id) =>
                 /\ ~ret'.ok /\ ret'.err = "InvalidIdentifier"
                 /\ ret'.calls = <<>>
                 /\ store' = store
          /\ InGrammar(ret'.arg.id) => ret'.calls = <<ByIdStoreCall(ret'.op)>>
          /\ (~ret'.ok /\ ret'.calls = <<>>) => ret'.err = "InvalidIdentifier"]_vars

\* update_by_id with a string that is not an identifier, on a store that
\* holds documents, failed without a store operation
C14_Witness ==
    /\ ret.op = "update_by_id"
    /\ ~InGrammar(ret.arg.id)
    /\ ~ret.ok /\ ret.err = "InvalidIdentifier"
    /\ ret.calls = <<>>
    /\ store # {}

(***************************************************************************)
(* C15                                                                     *)
(***************************************************************************)
\* position of key in a sequence of distinct keys
Position(seq, key) == CHOOSE i \in 1 .. Len(seq) : seq[i] = key

\* C15 as stated: with both filters[name] and filters.name in the raw
\* mapping, the result holds one entry for name, whose value is that of
\* the key visited later, and the insertion order of the raw mapping
\* determines which key that is (the key inserted later).
C15_InsertionOrderDecides ==
    (pf.done /\ lq.some) =>
        \A name \in FilterNames :
            LET b == BracketPrefix \o name \o BracketSuffix
                d == DotPrefix \o name
            IN  (b \in DOMAIN lq.v /\ d \in DOMAIN lq.v) =>
                    /\ name \in DOMAIN pf.result.v
                    /\ pf.result.v[name] =
                           (IF Position(pf.order, b) > Position(pf.order, d)
                            THEN lq.v[b] ELSE lq.v[d])
                    /\ pf.result.v[name] =
                           (IF Position(lq.inserted, b) > Position(lq.inserted, d)
                            THEN lq.v[b] ELSE lq.v[d])

(***************************************************************************)
(* C16                                                                     *)
(***************************************************************************)
\* the items of pages first .. last, in page order
RECURSIVE ConcatPages(_, _, _)
ConcatPages(got, first, last) ==
    IF first > last THEN <<>>
    ELSE got[first].val.items \o ConcatPages(got, first + 1, last)

\* C16: on an unchanged store, with one filter, page_size >= 1 and sort,
\* every fetched page succeeds with total_count the number of matching
\* documents and total_pages its ceiling quotient by page_size; the pages
\* 1..total_pages, concatenated in page order, are the full sorted result
\* (each matching document once), every page before the last holds
\* page_size items, and every page after total_pages is empty.
C16_PagesPartition ==
    LET n == Cardinality(Matching(store, walk.filter))
        size == walk.query.page_size
        pages == (n + size - 1) \div size
    IN  /\ \A p \in DOMAIN walk.got :
               /\ walk.got[p].ok
               /\ walk.got[p].val.total_count = n
               /\ walk.got[p].val.total_pages = pages
               /\ p > pages => walk.got[p].val.items = <<>>
               /\ p < pages => Len(walk.got[p].val.items) = size
        /\ (\A p \in 1 .. pages : p \in DOMAIN walk.got /\ walk.got[p].ok) =>
               LET all == ConcatPages(walk.got, 1, pages)
               IN  /\ Len(all) = n
                   /\ \A d \in Matching(store, walk.filter) :
                          Cardinality({i \in 1 .. Len(all) : all[i] = FromDocument(d)}) = 1
                   /\ Ok(all) \in find_many(store, walk.filter,
                                            Some(FindOptions(0, 0, sort_doc(walk.query))))

=============================================================================
